---------------------------- MODULE Spec2Model ----------------------------
(***************************************************************************)
(* A model of src/app.py, the Streamlit dashboard "Indian Stock PnL        *)
(* Statement Analyzer": symbol resolution, the fetch from the data         *)
(* provider, period selection, concept (row label) resolution, the derived *)
(* series and what main() puts on the page.                                *)
(*                                                                         *)
(* Conventions.                                                            *)
(*  - A Python str is a sequence of one-character strings, so that upper,  *)
(*    lower, strip and endswith are computed, not assumed.  Row labels of  *)
(*    a statement are only ever compared for equality and stay strings.    *)
(*  - A float is <<"num", n, d>> (the rational n/d in lowest terms, d > 0),*)
(*    <<"inf", s, 1>> (s = 1 or -1) or <<"nan", 0, 1>>.  Rounding is not   *)
(*    modelled; division by zero, NaN propagation and comparisons follow   *)
(*    IEEE 754 as numpy/pandas apply it.                                   *)
(*  - The page is the sequence of elements the current script run has      *)
(*    rendered.  Text formatting (f-strings) is not modelled: an element   *)
(*    carries the value that is formatted.                                 *)
(*    The page header, the sidebar widgets and the footer, which every run *)
(*    renders alike, are left out.                                         *)
(***************************************************************************)
EXTENDS Integers, Sequences, FiniteSets, TLC

VARIABLES
    pc,           \* where the current run of main() stands
    world,        \* this request: what the user entered, what the provider holds
    stock_input,  \* main's stock_input
    symbol,       \* main's symbol
    fetched,      \* the symbols fetch_financial_data was called with, this run
    stock,        \* fetch result: a Ticker object (TRUE) or None (FALSE)
    info,         \* fetch result: the keys of the info dict ({}: None or empty)
    financials,   \* fetch result: the annual income statement
    df,           \* main's df, the processed statement
    rev,          \* locals of the last create_revenue_analysis call
    prof,         \* locals of the last create_profitability_analysis call
    page          \* the elements rendered by the current run

vars == <<pc, world, stock_input, symbol, fetched, stock, info, financials,
          df, rev, prof, page>>

(***************************************************************************)
(* Bounds of the model.                                                    *)
(***************************************************************************)
\* whitespace characters put before and after a typed input
MaxPad == 1
\* period columns a fetched statement holds, in any order
MaxPeriods == 5
\* periods of the statements whose cell values are enumerated
MaxSeriesLen == 3
\* cell values are NaN and the integers -MaxVal..MaxVal
MaxVal == 2

(***************************************************************************)
(* Program constants.                                                      *)
(***************************************************************************)
\* df[...] / 1e7, "Convert to Crores"
CRORE == 10000000
\* df[pat_key] / 1e6, "Simplified EPS calculation"
EPS_DIVISOR == 1000000
\* df.tail(4), "Get last 4 years of data"
TAIL_PERIODS == 4

(***************************************************************************)
(* Python str operations.                                                  *)
(***************************************************************************)
LowerAlpha == <<"a","b","c","d","e","f","g","h","i","j","k","l","m",
                "n","o","p","q","r","s","t","u","v","w","x","y","z">>
UpperAlpha == <<"A","B","C","D","E","F","G","H","I","J","K","L","M",
                "N","O","P","Q","R","S","T","U","V","W","X","Y","Z">>

\* the characters str.strip() removes, as far as the inputs hold them
Whitespace == {" ", "\t"}

upper_char(c) ==
    IF \E i \in 1..26 : LowerAlpha[i] = c
    THEN UpperAlpha[CHOOSE i \in 1..26 : LowerAlpha[i] = c]
    ELSE c

lower_char(c) ==
    IF \E i \in 1..26 : UpperAlpha[i] = c
    THEN LowerAlpha[CHOOSE i \in 1..26 : UpperAlpha[i] = c]
    ELSE c

RECURSIVE upper(_)
upper(s) == IF s = <<>> THEN <<>> ELSE <<upper_char(Head(s))>> \o upper(Tail(s))

RECURSIVE lower(_)
lower(s) == IF s = <<>> THEN <<>> ELSE <<lower_char(Head(s))>> \o lower(Tail(s))

RECURSIVE lstrip(_)
lstrip(s) ==
    IF s # <<>> /\ Head(s) \in Whitespace THEN lstrip(Tail(s)) ELSE s

RECURSIVE rstrip(_)
rstrip(s) ==
    IF s # <<>> /\ s[Len(s)] \in Whitespace
    THEN rstrip(SubSeq(s, 1, Len(s) - 1))
    ELSE s

strip(s) == rstrip(lstrip(s))

endswith(s, suffix) ==
    /\ Len(s) >= Len(suffix)
    /\ SubSeq(s, Len(s) - Len(suffix) + 1, Len(s)) = suffix

(***************************************************************************)
(* get_stock_symbol.                                                       *)
(***************************************************************************)
DOT_NS == <<".", "N", "S">>
DOT_BO == <<".", "B", "O">>

\* the dict indian_stocks, as <<key, value>> pairs
indian_stocks == <<
    << <<"r","e","l","i","a","n","c","e">>,
       <<"R","E","L","I","A","N","C","E">> \o DOT_NS >>,
    << <<"t","c","s">>, <<"T","C","S">> \o DOT_NS >>,
    << <<"h","d","f","c"," ","b","a","n","k">>,
       <<"H","D","F","C","B","A","N","K">> \o DOT_NS >>,
    << <<"i","n","f","o","s","y","s">>, <<"I","N","F","Y">> \o DOT_NS >>,
    << <<"i","c","i","c","i"," ","b","a","n","k">>,
       <<"I","C","I","C","I","B","A","N","K">> \o DOT_NS >>,
    << <<"h","d","f","c">>, <<"H","D","F","C">> \o DOT_NS >>,
    << <<"k","o","t","a","k"," ","m","a","h","i","n","d","r","a">>,
       <<"K","O","T","A","K","B","A","N","K">> \o DOT_NS >>,
    << <<"b","h","a","r","t","i"," ","a","i","r","t","e","l">>,
       <<"B","H","A","R","T","I","A","R","T","L">> \o DOT_NS >>,
    << <<"i","t","c">>, <<"I","T","C">> \o DOT_NS >>,
    << <<"s","b","i">>, <<"S","B","I","N">> \o DOT_NS >>,
    << <<"l","&","t">>, <<"L","T">> \o DOT_NS >>,
    << <<"a","x","i","s"," ","b","a","n","k">>,
       <<"A","X","I","S","B","A","N","K">> \o DOT_NS >>,
    << <<"m","a","r","u","t","i"," ","s","u","z","u","k","i">>,
       <<"M","A","R","U","T","I">> \o DOT_NS >>,
    << <<"b","a","j","a","j"," ","f","i","n","a","n","c","e">>,
       <<"B","A","J","F","I","N","A","N","C","E">> \o DOT_NS >>,
    << <<"w","i","p","r","o">>, <<"W","I","P","R","O">> \o DOT_NS >>,
    << <<"a","s","i","a","n"," ","p","a","i","n","t","s">>,
       <<"A","S","I","A","N","P","A","I","N","T">> \o DOT_NS >>,
    << <<"n","e","s","t","l","e">>,
       <<"N","E","S","T","L","E","I","N","D">> \o DOT_NS >>,
    << <<"u","l","t","r","a","t","e","c","h"," ","c","e","m","e","n","t">>,
       <<"U","L","T","R","A","C","E","M","C","O">> \o DOT_NS >>,
    << <<"t","i","t","a","n">>, <<"T","I","T","A","N">> \o DOT_NS >>,
    << <<"s","u","n"," ","p","h","a","r","m","a">>,
       <<"S","U","N","P","H","A","R","M","A">> \o DOT_NS >> >>

in_indian_stocks(key) ==
    \E i \in 1..Len(indian_stocks) : indian_stocks[i][1] = key

lookup_indian_stocks(key) ==
    indian_stocks[CHOOSE i \in 1..Len(indian_stocks) :
                      indian_stocks[i][1] = key][2]

get_stock_symbol(input) ==
    LET stock_input_lower == strip(lower(input))
    IN  IF in_indian_stocks(stock_input_lower)
        THEN lookup_indian_stocks(stock_input_lower)
        ELSE IF endswith(upper(input), DOT_NS) \/ endswith(upper(input), DOT_BO)
             THEN upper(input)
             ELSE upper(input) \o DOT_NS

(***************************************************************************)
(* Floats.                                                                 *)
(***************************************************************************)
NaN == <<"nan", 0, 1>>
Inf(s) == <<"inf", s, 1>>

IAbs(n) == IF n < 0 THEN -n ELSE n
ISign(n) == IF n < 0 THEN -1 ELSE IF n > 0 THEN 1 ELSE 0

RECURSIVE GCD(_, _)
GCD(a, b) == IF b = 0 THEN a ELSE GCD(b, a % b)

\* the float n/d, d # 0, in lowest terms
Num(n, d) ==
    LET g == GCD(IAbs(n), IAbs(d))
    IN  IF d < 0 THEN <<"num", (-n) \div g, (-d) \div g>>
                 ELSE <<"num", n \div g, d \div g>>

Float(i) == <<"num", i, 1>>
ZERO == Float(0)

isna(a) == a[1] = "nan"
IsNum(a) == a[1] = "num"
IsInf(a) == a[1] = "inf"
\* sign of a float that is not NaN
FSign(a) == IF IsInf(a) THEN a[2] ELSE ISign(a[2])

\* a / b
FDiv(a, b) ==
    IF isna(a) \/ isna(b) THEN NaN
    ELSE IF IsInf(a) THEN (IF IsInf(b) THEN NaN
                           ELSE Inf(a[2] * (IF FSign(b) < 0 THEN -1 ELSE 1)))
    ELSE IF IsInf(b) THEN ZERO
    ELSE IF b[2] = 0 THEN (IF a[2] = 0 THEN NaN ELSE Inf(ISign(a[2])))
    ELSE LET g1 == GCD(IAbs(a[2]), IAbs(b[2]))
             g2 == GCD(a[3], b[3])
             h1 == IF g1 = 0 THEN 1 ELSE g1
         IN  Num((a[2] \div h1) * (b[3] \div g2), (a[3] \div g2) * (b[2] \div h1))

\* a * b
FMul(a, b) ==
    IF isna(a) \/ isna(b) THEN NaN
    ELSE IF IsInf(a) \/ IsInf(b)
         THEN (IF FSign(a) = 0 \/ FSign(b) = 0 THEN NaN
               ELSE Inf(FSign(a) * FSign(b)))
    ELSE LET g1 == GCD(IAbs(a[2]), b[3])
             g2 == GCD(IAbs(b[2]), a[3])
         IN  Num((a[2] \div g1) * (b[2] \div g2), (a[3] \div g2) * (b[3] \div g1))

\* a - b
FSub(a, b) ==
    IF isna(a) \/ isna(b) THEN NaN
    ELSE IF IsInf(a) THEN (IF IsInf(b) /\ a[2] = b[2] THEN NaN ELSE a)
    ELSE IF IsInf(b) THEN Inf(-b[2])
    ELSE LET g == GCD(a[3], b[3])
             l == (a[3] \div g) * b[3]
         IN  Num(a[2] * (l \div a[3]) - b[2] * (l \div b[3]), l)

\* abs(a)
FAbs(a) ==
    IF isna(a) THEN NaN
    ELSE IF IsInf(a) THEN Inf(1)
    ELSE <<"num", IAbs(a[2]), a[3]>>

\* a > b; any comparison with NaN is False
FGt(a, b) ==
    IF isna(a) \/ isna(b) THEN FALSE
    ELSE IF IsInf(a) THEN a[2] = 1 /\ ~(IsInf(b) /\ b[2] = 1)
    ELSE IF IsInf(b) THEN b[2] = -1
    ELSE a[2] * b[3] > b[2] * a[3]

\* a + b
FAdd(a, b) ==
    IF isna(a) \/ isna(b) THEN NaN
    ELSE IF IsInf(a) THEN (IF IsInf(b) /\ a[2] # b[2] THEN NaN ELSE a)
    ELSE IF IsInf(b) THEN b
    ELSE LET g == GCD(a[3], b[3])
             l == (a[3] \div g) * b[3]
         IN  Num(a[2] * (l \div a[3]) + b[2] * (l \div b[3]), l)

(***************************************************************************)
(* DataFrames.  A frame holds its period end dates (the columns of the raw *)
(* statement, the index after .T), its row labels (the index of the raw    *)
(* statement, the columns after .T) and cell[label][date].  A period end   *)
(* date is the integer year * 100 + month.                                 *)
(***************************************************************************)
Range(s) == {s[i] : i \in 1..Len(s)}

NoneFrame == [none |-> TRUE, periods |-> <<>>, labels |-> <<>>, cell |-> <<>>]

Frame(periods, labels, cell) ==
    [none |-> FALSE, periods |-> periods, labels |-> labels, cell |-> cell]

\* DataFrame.empty: an axis of length 0
empty(f) == Len(f.periods) = 0 \/ Len(f.labels) = 0

\* d.year
year(d) == d \div 100

\* df.sort_index(ascending=True) on the period end dates
sort_index(periods) == SortSeq(periods, LAMBDA a, b : a < b)

\* df.tail(n)
tail(periods, n) ==
    IF Len(periods) <= n THEN periods
    ELSE SubSeq(periods, Len(periods) - n + 1, Len(periods))

process_unsorted(fin) ==
    IF fin.none \/ empty(fin) THEN NoneFrame
    ELSE Frame(tail(fin.periods, TAIL_PERIODS), fin.labels, fin.cell)

process_financial_data(fin) ==
    IF fin.none \/ empty(fin) THEN NoneFrame
    ELSE Frame(tail(sort_index(fin.periods), TAIL_PERIODS), fin.labels, fin.cell)

(***************************************************************************)
(* calculate_growth_rate.                                                  *)
(***************************************************************************)
growth_formula(current, previous) ==
    FMul(FDiv(FSub(current, previous), FAbs(previous)), Float(100))

growth_unguarded_nan(current, previous) ==
    IF previous = ZERO THEN ZERO ELSE growth_formula(current, previous)

calculate_growth_rate(current, previous) ==
    IF previous = ZERO \/ isna(previous) \/ isna(current)
    THEN ZERO
    ELSE growth_formula(current, previous)

(***************************************************************************)
(* Concept resolution: the for/break loops over the possible keys.         *)
(***************************************************************************)
possible_revenue_keys == <<"Total Revenue", "Revenue", "Net Sales", "Total Revenues">>
possible_operating_keys == <<"Operating Income", "Operating Revenue", "Gross Profit", "EBIT">>
possible_pbt_keys == <<"Pretax Income", "Income Before Tax", "Earnings Before Tax", "PBT">>
possible_pat_keys == <<"Net Income", "Net Earnings", "PAT", "Profit After Tax">>

\* the key variable left at None
NoKey == ""

RECURSIVE first_column_among(_, _)
first_column_among(columns, keys) ==
    IF columns = <<>> THEN NoKey
    ELSE IF Head(columns) \in Range(keys) THEN Head(columns)
    ELSE first_column_among(Tail(columns), keys)

find_key_by_row_order(keys, columns) == first_column_among(columns, keys)

RECURSIVE find_key(_, _)
find_key(keys, columns) ==
    IF keys = <<>> THEN NoKey
    ELSE IF Head(keys) \in Range(columns) THEN Head(keys)
    ELSE find_key(Tail(keys), columns)

\* df[key] / divisor, one entry per period of df.index
column_over(f, key, divisor) ==
    [i \in 1..Len(f.periods) |-> FDiv(f.cell[key][f.periods[i]], Float(divisor))]

\* pd.Series([0] * len(like), index=like.index)
zeros(like) == [i \in 1..Len(like) |-> ZERO]

years_of(f) == [i \in 1..Len(f.periods) |-> year(f.periods[i])]

Last(s) == s[Len(s)]

Element(kind, id, data) == [kind |-> kind, id |-> id, data |-> data]
Trace(name, x, y) == [name |-> name, x |-> x, y |-> y]

(***************************************************************************)
(* create_revenue_analysis.  The result holds the function's locals and    *)
(* the elements it rendered, in order.                                     *)
(***************************************************************************)
\* df[operating_income_key] / df[revenue_key] * 100
opm_of(f, revenue_key, operating_income_key) ==
    [i \in 1..Len(f.periods) |->
        FMul(FDiv(f.cell[operating_income_key][f.periods[i]],
                  f.cell[revenue_key][f.periods[i]]), Float(100))]

operating_traces_always(operating_income_key, years, revenue_data, operating_data, opm_data) ==
    << Trace("Operating Profit", years, operating_data),
       Trace("OPM %", years, opm_data),
       Trace("Latest Year Comparison", <<"Revenue", "Operating Profit">>,
             <<Last(revenue_data), Last(operating_data)>>) >>

\* the three traces guarded by "if operating_income_key:"
operating_traces(operating_income_key, years, revenue_data, operating_data, opm_data) ==
    IF operating_income_key # NoKey
    THEN << Trace("Operating Profit", years, operating_data),
            Trace("OPM %", years, opm_data),
            Trace("Latest Year Comparison", <<"Revenue", "Operating Profit">>,
                  <<Last(revenue_data), Last(operating_data)>>) >>
    ELSE <<>>

revenue_not_found_silent(header) == <<header>>

\* "if not revenue_key: st.warning(...); return"
revenue_not_found(header) ==
    << header,
       Element("warning", "Revenue data not found in the financial statements", <<>>) >>

revenue_comment(revenue_growth) ==
    IF FGt(revenue_growth, Float(15)) THEN "Strong revenue growth"
    ELSE IF FGt(revenue_growth, Float(5)) THEN "Moderate revenue growth"
    ELSE "Slow revenue growth"

opm_comment(latest_opm) ==
    IF FGt(latest_opm, Float(20)) THEN "Excellent operational efficiency"
    ELSE IF FGt(latest_opm, Float(10)) THEN "Good operational performance"
    ELSE "Low operating margins"

create_revenue_analysis(f, company_name) ==
    LET revenue_key == find_key(possible_revenue_keys, f.labels)
        operating_income_key == find_key(possible_operating_keys, f.labels)
        header == Element("markdown", "Revenue & Operating Performance Analysis", <<>>)
    IN  IF revenue_key = NoKey
        THEN [ called |-> TRUE, returned_early |-> TRUE,
               revenue_key |-> revenue_key,
               operating_income_key |-> operating_income_key,
               revenue_data |-> <<>>, operating_data |-> <<>>, opm_data |-> <<>>,
               revenue_growth |-> ZERO, operating_growth |-> ZERO,
               elements |-> revenue_not_found(header) ]
        ELSE
        LET revenue_data == column_over(f, revenue_key, CRORE)
            years == years_of(f)
            operating_data ==
                IF operating_income_key # NoKey
                THEN column_over(f, operating_income_key, CRORE)
                ELSE zeros(revenue_data)
            opm_data ==
                IF operating_income_key # NoKey
                THEN opm_of(f, revenue_key, operating_income_key)
                ELSE zeros(revenue_data)
            fig == Element("plotly_chart", "Revenue & Operating Performance",
                       [company |-> company_name,
                        traces |-> <<Trace("Revenue", years, revenue_data)>>
                            \o operating_traces(operating_income_key, years,
                                   revenue_data, operating_data, opm_data)])
            revenue_growth == calculate_growth_rate(Last(revenue_data), revenue_data[1])
            latest_revenue == Last(revenue_data)
            col1 == << Element("markdown", "Revenue Analysis", <<>>),
                       Element("write", "Latest Revenue", latest_revenue),
                       Element("write", "4-Year CAGR", FDiv(revenue_growth, Float(4))),
                       Element("write", revenue_comment(revenue_growth), <<>>) >>
            latest_opm == IF ~isna(Last(opm_data)) THEN Last(opm_data) ELSE ZERO
            operating_growth ==
                IF operating_income_key # NoKey
                THEN calculate_growth_rate(Last(operating_data), operating_data[1])
                ELSE ZERO
            col2 == IF operating_income_key # NoKey
                    THEN << Element("markdown", "Operating Performance", <<>>),
                            Element("write", "Current Operating Margin", latest_opm),
                            Element("write", "Operating Profit Growth", operating_growth),
                            Element("write", opm_comment(latest_opm), <<>>) >>
                    ELSE << Element("write",
                              "Operating profit data not available for detailed analysis",
                              <<>>) >>
        IN  [ called |-> TRUE, returned_early |-> FALSE,
              revenue_key |-> revenue_key,
              operating_income_key |-> operating_income_key,
              revenue_data |-> revenue_data, operating_data |-> operating_data,
              opm_data |-> opm_data,
              revenue_growth |-> revenue_growth, operating_growth |-> operating_growth,
              elements |-> <<header, fig, Element("subheader", "Key Insights", <<>>)>>
                           \o col1 \o col2 ]

(***************************************************************************)
(* create_profitability_analysis.                                          *)
(***************************************************************************)
\* eps_data = df[pat_key] / 1e6
eps_of(f, pat_key) == column_over(f, pat_key, EPS_DIVISOR)

growth_rates_with_leading_zero(eps_data) ==
    [i \in 1..Len(eps_data) |->
        IF i = 1 THEN ZERO ELSE calculate_growth_rate(eps_data[i], eps_data[i - 1])]

\* for i in range(1, len(eps_data)): append(calculate_growth_rate(eps[i], eps[i-1]))
eps_growth_rates_of(eps_data) ==
    [j \in 1..(Len(eps_data) - 1) |->
        calculate_growth_rate(eps_data[j + 1], eps_data[j])]

RECURSIVE FSum(_)
FSum(s) == IF s = <<>> THEN ZERO ELSE FAdd(Head(s), FSum(Tail(s)))

\* np.mean(xs) if xs else 0
mean_or_zero(xs) == IF Len(xs) = 0 THEN ZERO ELSE FDiv(FSum(xs), Float(Len(xs)))

pat_comment(pat_growth) ==
    IF FGt(pat_growth, Float(20)) THEN "Outstanding profit growth"
    ELSE IF FGt(pat_growth, Float(10)) THEN "Strong profit growth"
    ELSE IF FGt(pat_growth, Float(0)) THEN "Positive profit growth"
    ELSE "Declining profits"

eps_comment(avg_eps_growth) ==
    IF FGt(avg_eps_growth, Float(15)) THEN "Excellent EPS growth"
    ELSE IF FGt(avg_eps_growth, Float(8)) THEN "Good EPS growth"
    ELSE IF FGt(avg_eps_growth, Float(0)) THEN "Moderate EPS growth"
    ELSE "Declining EPS"

create_profitability_analysis(f, company_name) ==
    LET pbt_key == find_key(possible_pbt_keys, f.labels)
        pat_key == find_key(possible_pat_keys, f.labels)
        header == Element("markdown", "Profitability & EPS Analysis", <<>>)
    IN  IF pat_key = NoKey
        THEN [ called |-> TRUE, returned_early |-> TRUE,
               pbt_key |-> pbt_key, pat_key |-> pat_key,
               pat_data |-> <<>>, pbt_data |-> <<>>, eps_data |-> <<>>,
               eps_growth_rates |-> <<>>, pat_growth |-> ZERO,
               elements |-> << header,
                   Element("warning",
                           "Net Income/PAT data not found in the financial statements",
                           <<>>) >> ]
        ELSE
        LET years == years_of(f)
            pat_data == column_over(f, pat_key, CRORE)
            pbt_data == IF pbt_key # NoKey THEN column_over(f, pbt_key, CRORE)
                        ELSE pat_data
            eps_data == eps_of(f, pat_key)
            eps_growth_rates == eps_growth_rates_of(eps_data)
            traces ==
                (IF pbt_key # NoKey THEN <<Trace("PBT", years, pbt_data)>> ELSE <<>>)
                \o << Trace("PAT", years, pat_data), Trace("EPS", years, eps_data) >>
                \o (IF pbt_key # NoKey
                    THEN <<Trace("Latest Year Profit", <<"PBT", "PAT">>,
                                 <<Last(pbt_data), Last(pat_data)>>)>>
                    ELSE <<>>)
                \o (IF Len(eps_growth_rates) > 0
                    THEN <<Trace("EPS Growth %", Tail(years), eps_growth_rates)>>
                    ELSE <<>>)
            fig == Element("plotly_chart", "Profitability Analysis",
                           [company |-> company_name, traces |-> traces])
            latest_pat == Last(pat_data)
            pat_growth == calculate_growth_rate(Last(pat_data), pat_data[1])
            latest_eps == Last(eps_data)
            eps_growth_total == calculate_growth_rate(Last(eps_data), eps_data[1])
            avg_eps_growth == mean_or_zero(eps_growth_rates)
        IN  [ called |-> TRUE, returned_early |-> FALSE,
              pbt_key |-> pbt_key, pat_key |-> pat_key,
              pat_data |-> pat_data, pbt_data |-> pbt_data, eps_data |-> eps_data,
              eps_growth_rates |-> eps_growth_rates, pat_growth |-> pat_growth,
              elements |->
                << header, fig, Element("subheader", "Profitability Insights", <<>>),
                   Element("markdown", "Profit Analysis", <<>>),
                   Element("write", "Latest PAT", latest_pat),
                   Element("write", "4-Year PAT Growth", pat_growth),
                   Element("write", pat_comment(pat_growth), <<>>),
                   Element("markdown", "EPS Analysis", <<>>),
                   Element("write", "Latest EPS", latest_eps),
                   Element("write", "Average Annual EPS Growth", avg_eps_growth),
                   Element("write", "4-Year EPS Growth", eps_growth_total),
                   Element("write", eps_comment(avg_eps_growth), <<>>) >> ]

(***************************************************************************)
(* The requests the model makes.  A world is one request: the text in      *)
(* stock_input when the button is pressed, and what the provider answers   *)
(* for it (an exception, or info and the annual statement; the per-period  *)
(* share counts of the balance sheet are part of the world although the    *)
(* program never asks for them).  The worlds come in families, each of     *)
(* which varies one part of the request over all its values and holds the  *)
(* others at a default.                                                    *)
(***************************************************************************)
World(input, outcome, keys, fin, shares) ==
    [input |-> input, outcome |-> outcome, info |-> keys, fin |-> fin,
     shares |-> shares]

Pad(k) == [i \in 1..k |-> " "]

\* the i-th period end date: 31 March of year 2019 + i
DateOf(i) == (2019 + i) * 100 + 3

AllLabels == <<"Tax Provision">> \o possible_revenue_keys \o possible_operating_keys
             \o possible_pbt_keys \o possible_pat_keys

LabelWeight(l) == CHOOSE i \in 1..Len(AllLabels) : AllLabels[i] = l

DefaultValue(l, d) ==
    Float((10 + (year(d) - 2019)) * LabelWeight(l) + (year(d) - 2019) * (year(d) - 2019))

DefaultCell(labels, periods) ==
    [l \in Range(labels) |-> [d \in Range(periods) |-> DefaultValue(l, d)]]

ConstantShares(periods) == [d \in Range(periods) |-> 1000000]
GrowingShares(periods) == [d \in Range(periods) |-> 1000000 * (year(d) - 2019)]

DefaultLabels == <<"Tax Provision", "Total Revenue", "Operating Income",
                   "Pretax Income", "Net Income">>
\* the provider's native order: most recent first
DefaultPeriods == <<DateOf(4), DateOf(3), DateOf(2), DateOf(1)>>
DefaultStatement ==
    Frame(DefaultPeriods, DefaultLabels, DefaultCell(DefaultLabels, DefaultPeriods))
FullInfo == {"longName", "sector", "marketCap"}
DefaultInput == <<"t", "c", "s">>

\* The text field: optional whitespace, a base, an optional suffix.
Bases ==
    { <<>>, <<"t","c","s">>, <<"T","c","s">>, <<"S","B","I","N">>, <<"a"," ","b">>,
      <<"l","&","t">>, <<"x","!">>, <<"m","-","m">>, [i \in 1..21 |-> "a"] }
TypedSuffixes ==
    { <<>>, <<".","n","s">>, <<".","N","S">>, <<".","N","s">>, <<".","b","o">>,
      <<".","B","O">>, <<".","n">>, <<"n","s">> }
TypedInputs ==
    { Pad(a) \o b \o x \o Pad(c) :
        a \in 0..MaxPad, b \in Bases, x \in TypedSuffixes, c \in 0..MaxPad } \ {<<>>}
\* The selectbox, whose choice replaces the text field's.
popular_stocks ==
    { <<"R","e","l","i","a","n","c","e">>, <<"T","C","S">>,
      <<"H","D","F","C"," ","B","a","n","k">>, <<"I","n","f","o","s","y","s">>,
      <<"I","C","I","C","I"," ","B","a","n","k">>, <<"I","T","C">>,
      <<"B","h","a","r","t","i"," ","A","i","r","t","e","l">>, <<"S","B","I">>,
      <<"K","o","t","a","k"," ","M","a","h","i","n","d","r","a">>, <<"L","&","T">> }

\* What the provider can answer, whatever the statement holds.
Answers ==
    { World(<<>>, "raise", {}, NoneFrame, <<>>),
      World(<<>>, "ok", {}, DefaultStatement, ConstantShares(DefaultPeriods)),
      World(<<>>, "ok", FullInfo, NoneFrame, <<>>),
      World(<<>>, "ok", FullInfo, Frame(<<>>, <<>>, <<>>), <<>>),
      World(<<>>, "ok", {"sector"}, DefaultStatement, ConstantShares(DefaultPeriods)),
      World(<<>>, "ok", FullInfo, DefaultStatement, ConstantShares(DefaultPeriods)) }

\* the request made with input i when the provider's answer is a
SymbolWorld(i, a) == [a EXCEPT !.input = i]

\* Statements of up to MaxPeriods periods, the columns in every order.
Perms(n) == { p \in [1..n -> 1..n] : \A i, j \in 1..n : p[i] = p[j] => i = j }
PeriodOrders ==
    UNION { { [i \in 1..n |-> DateOf(p[i])] : p \in Perms(n) } : n \in 0..MaxPeriods }
PeriodWorld(o) ==
    World(DefaultInput, "ok", FullInfo,
          Frame(o, DefaultLabels, DefaultCell(DefaultLabels, o)), ConstantShares(o))

\* Statements holding every subset of one concept's aliases, and for each
\* other concept no alias or one; the rows in the order of AllLabels or in
\* the reverse order.
Singles(keys) == {{}} \cup { {k} : k \in Range(keys) }
AnyOf(keys) == SUBSET Range(keys)
LabelSets ==
    { {"Tax Provision"} \cup a \cup b \cup c \cup d :
        a \in AnyOf(possible_revenue_keys), b \in Singles(possible_operating_keys),
        c \in Singles(possible_pbt_keys), d \in Singles(possible_pat_keys) }
    \cup
    { {"Tax Provision"} \cup a \cup b \cup c \cup d :
        a \in Singles(possible_revenue_keys), b \in AnyOf(possible_operating_keys),
        c \in Singles(possible_pbt_keys), d \in Singles(possible_pat_keys) }
    \cup
    { {"Tax Provision"} \cup a \cup b \cup c \cup d :
        a \in Singles(possible_revenue_keys), b \in Singles(possible_operating_keys),
        c \in AnyOf(possible_pbt_keys), d \in Singles(possible_pat_keys) }
    \cup
    { {"Tax Provision"} \cup a \cup b \cup c \cup d :
        a \in Singles(possible_revenue_keys), b \in Singles(possible_operating_keys),
        c \in Singles(possible_pbt_keys), d \in AnyOf(possible_pat_keys) }
InOrder(set) == SelectSeq(AllLabels, LAMBDA l : l \in set)
Reverse(s) == [i \in 1..Len(s) |-> s[Len(s) + 1 - i]]
ConceptWorld(set, reversed) ==
    LET rows == IF reversed THEN Reverse(InOrder(set)) ELSE InOrder(set)
    IN  World(DefaultInput, "ok", FullInfo,
              Frame(DefaultPeriods, rows, DefaultCell(rows, DefaultPeriods)),
              ConstantShares(DefaultPeriods))

\* Statements whose cells are enumerated.
Values == {NaN} \cup { Float(v) : v \in (-MaxVal)..MaxVal }
Ascending(n) == [i \in 1..n |-> DateOf(i)]
ValueLabels == <<"Total Revenue", "Operating Income", "Pretax Income", "Net Income">>
\* the row of a label with the values v[1], v[2], ... in period order
RowOf(n, v) == [d \in Range(Ascending(n)) |-> v[year(d) - 2019]]
\* a Net Income series v of n periods, with equal or growing share counts
PatWorld(n, v, growing) ==
    World(DefaultInput, "ok", FullInfo,
          Frame(Ascending(n), ValueLabels,
                [DefaultCell(ValueLabels, Ascending(n)) EXCEPT
                    !["Net Income"] = RowOf(n, v)]),
          IF growing THEN GrowingShares(Ascending(n)) ELSE ConstantShares(Ascending(n)))
\* a revenue series r and an operating series o of two periods
MarginWorld(r, o) ==
    World(DefaultInput, "ok", FullInfo,
          Frame(Ascending(2), ValueLabels,
                [DefaultCell(ValueLabels, Ascending(2)) EXCEPT
                    !["Total Revenue"] = RowOf(2, r),
                    !["Operating Income"] = RowOf(2, o)]),
          ConstantShares(Ascending(2)))
\* a revenue series r of two periods and no operating row
NoOperatingWorld(r) ==
    World(DefaultInput, "ok", FullInfo,
          Frame(Ascending(2), <<"Total Revenue", "Net Income">>,
                [DefaultCell(<<"Total Revenue", "Net Income">>, Ascending(2)) EXCEPT
                    !["Total Revenue"] = RowOf(2, r)]),
          ConstantShares(Ascending(2)))

NoWorld == World(<<>>, "none", {}, NoneFrame, <<>>)
NotCalled == [called |-> FALSE]

(***************************************************************************)
(* fetch_financial_data.  The result is <<stock, info, financials>> and    *)
(* the elements rendered; quarterly_financials is returned and never read. *)
(***************************************************************************)
fetch_financial_data(w) ==
    IF w.outcome = "raise"
    THEN [stock |-> FALSE, info |-> {}, financials |-> NoneFrame,
          elements |-> <<Element("error", "Error fetching data", <<>>)>>]
    ELSE [stock |-> TRUE, info |-> w.info, financials |-> w.fin,
          elements |-> <<>>]

\* info.get('longName', stock_input)
company_name_of(keys, input) ==
    IF "longName" \in keys THEN <<"l","o","n","g","N","a","m","e">> ELSE input

(***************************************************************************)
(* main(), one action per call it makes.  Streamlit runs main() again on   *)
(* every interaction and the page is rebuilt by that run.                  *)
(***************************************************************************)
Init ==
    /\ pc = "idle"
    /\ world = NoWorld
    /\ stock_input = <<>>
    /\ symbol = <<>>
    /\ fetched = <<>>
    /\ stock = FALSE
    /\ info = {}
    /\ financials = NoneFrame
    /\ df = NoneFrame
    /\ rev = NotCalled
    /\ prof = NotCalled
    /\ page = <<>>

\* "if analyze_button and stock_input": the button pressed with a non-empty
\* stock_input; symbol = get_stock_symbol(stock_input)
Start(w) ==
    /\ w.input # <<>>
    /\ world' = w
    /\ stock_input' = w.input
    /\ symbol' = get_stock_symbol(w.input)

Analyze ==
    /\ pc = "idle"
    /\ \/ \E i \in TypedInputs \cup popular_stocks, a \in Answers :
              Start(SymbolWorld(i, a))
       \/ \E o \in PeriodOrders : Start(PeriodWorld(o))
       \/ \E set \in LabelSets, reversed \in BOOLEAN : Start(ConceptWorld(set, reversed))
       \/ \E n \in 1..MaxSeriesLen :
              \E v \in [1..n -> Values], growing \in BOOLEAN : Start(PatWorld(n, v, growing))
       \/ \E r \in [1..2 -> Values], o \in [1..2 -> Values] : Start(MarginWorld(r, o))
       \/ \E r \in [1..2 -> Values] : Start(NoOperatingWorld(r))
    /\ pc' = "fetch"
    /\ UNCHANGED <<fetched, stock, info, financials, df, rev, prof, page>>

\* "elif not stock_input and analyze_button"
AnalyzeWithoutInput ==
    /\ pc = "idle"
    /\ page' = <<Element("warning", "Please enter a stock symbol or name to analyze.", <<>>)>>
    /\ pc' = "done"
    /\ UNCHANGED <<world, stock_input, symbol, fetched, stock, info, financials,
                   df, rev, prof>>

\* stock, info, financials, quarterly_financials = fetch_financial_data(symbol)
Fetch ==
    /\ pc = "fetch"
    /\ LET r == fetch_financial_data(world)
       IN  /\ stock' = r.stock
           /\ info' = r.info
           /\ financials' = r.financials
           /\ page' = page \o r.elements
    /\ fetched' = Append(fetched, symbol)
    /\ pc' = "process"
    /\ UNCHANGED <<world, stock_input, symbol, df, rev, prof>>

\* "if stock and info": the three metrics and df = process_financial_data(financials),
\* with both else branches
Process ==
    /\ pc = "process"
    /\ IF stock /\ info # {}
       THEN LET d == process_financial_data(financials)
                metrics ==
                    << Element("metric", "Company", company_name_of(info, stock_input)),
                       Element("metric", "Sector",
                               IF "sector" \in info THEN "sector" ELSE "N/A"),
                       Element("metric", "Market Cap",
                               IF "marketCap" \in info THEN "marketCap" ELSE "N/A") >>
            IN  /\ df' = d
                /\ IF ~d.none /\ ~empty(d)
                   THEN /\ page' = page \o metrics
                        /\ pc' = "revenue"
                   ELSE /\ page' = page \o metrics \o
                              <<Element("error", "Unable to process financial data for this stock. Please try another stock symbol.", <<>>)>>
                        /\ pc' = "done"
       ELSE /\ page' = page \o
                  <<Element("error", "Unable to fetch data. Please check the stock symbol and try again.", stock_input)>>
            /\ pc' = "done"
            /\ df' = df
    /\ UNCHANGED <<world, stock_input, symbol, fetched, stock, info, financials,
                   rev, prof>>

\* create_revenue_analysis(df, company_name); st.divider()
RevenueAnalysis ==
    /\ pc = "revenue"
    /\ rev' = create_revenue_analysis(df, company_name_of(info, stock_input))
    /\ page' = page \o rev'.elements \o <<Element("divider", "", <<>>)>>
    /\ pc' = "profitability"
    /\ UNCHANGED <<world, stock_input, symbol, fetched, stock, info, financials,
                   df, prof>>

\* create_profitability_analysis(df, company_name)
ProfitabilityAnalysis ==
    /\ pc = "profitability"
    /\ prof' = create_profitability_analysis(df, company_name_of(info, stock_input))
    /\ page' = page \o prof'.elements
    /\ pc' = "summary"
    /\ UNCHANGED <<world, stock_input, symbol, fetched, stock, info, financials,
                   df, rev>>

\* the Investment Summary block and the disclaimer
Summary ==
    /\ pc = "summary"
    /\ page' = page \o
           << Element("markdown", "Investment Summary", <<>>),
              Element("markdown", "Strengths", <<>>),
              Element("markdown", "Considerations", <<>>),
              Element("info", "Disclaimer", <<>>) >>
    /\ pc' = "done"
    /\ UNCHANGED <<world, stock_input, symbol, fetched, stock, info, financials,
                   df, rev, prof>>

\* The next interaction: main() runs again from the top, with nothing of the
\* last run left on the page.
Rerun ==
    /\ pc = "done"
    /\ pc' = "idle"
    /\ world' = NoWorld
    /\ stock_input' = <<>>
    /\ symbol' = <<>>
    /\ fetched' = <<>>
    /\ stock' = FALSE
    /\ info' = {}
    /\ financials' = NoneFrame
    /\ df' = NoneFrame
    /\ rev' = NotCalled
    /\ prof' = NotCalled
    /\ page' = <<>>

Next ==
    \/ Analyze
    \/ AnalyzeWithoutInput
    \/ Fetch
    \/ Process
    \/ RevenueAnalysis
    \/ ProfitabilityAnalysis
    \/ Summary
    \/ Rerun

Spec == Init /\ [][Next]_vars

(***************************************************************************)
(* What the properties below read off a state.                             *)
(***************************************************************************)
\* a request was made and main() has returned
Finished == pc = "done" /\ world.outcome # "none"

\* some alias of the concept is a row label of the processed statement
Present(keys) == \E i \in 1..Len(keys) : keys[i] \in Range(df.labels)

HasElement(kind, id) ==
    \E i \in 1..Len(page) : page[i].kind = kind /\ page[i].id = id

CountOf(kind, id) ==
    Cardinality({ i \in 1..Len(page) : page[i].kind = kind /\ page[i].id = id })

\* the st.error and st.warning elements on the page
Messages == { i \in 1..Len(page) : page[i].kind \in {"error", "warning"} }

\* the traces of the chart with this title, <<>> when it was not rendered
TracesOf(id) ==
    IF HasElement("plotly_chart", id)
    THEN page[CHOOSE i \in 1..Len(page) :
                 page[i].kind = "plotly_chart" /\ page[i].id = id].data.traces
    ELSE <<>>

TraceNames(id) == { TracesOf(id)[i].name : i \in 1..Len(TracesOf(id)) }

TraceNamed(id, name) ==
    TracesOf(id)[CHOOSE i \in 1..Len(TracesOf(id)) : TracesOf(id)[i].name = name]

RevenueWarning == "Revenue data not found in the financial statements"
PatWarning == "Net Income/PAT data not found in the financial statements"
RevenueChart == "Revenue & Operating Performance"
ProfitChart == "Profitability Analysis"
RevenueLines == {"Latest Revenue", "4-Year CAGR", "Current Operating Margin",
                 "Operating Profit Growth"}
ProfitLines == {"Latest PAT", "4-Year PAT Growth", "Latest EPS",
                "Average Annual EPS Growth", "4-Year EPS Growth"}

IsAscending(s) == \A i \in 1..(Len(s) - 1) : s[i] < s[i + 1]
IsDescending(s) == \A i \in 1..(Len(s) - 1) : s[i] > s[i + 1]
Min(a, b) == IF a < b THEN a ELSE b

\* kept holds the latest periods of all: every period left out is older
Latest(kept, all) ==
    /\ Range(kept) \subseteq Range(all)
    /\ \A d \in Range(all) \ Range(kept) : \A e \in Range(kept) : d < e

HasSuffix(x) == endswith(x, DOT_NS) \/ endswith(x, DOT_BO)
SuffixOf(x) == SubSeq(x, Len(x) - 2, Len(x))
BaseOf(x) == SubSeq(x, 1, Len(x) - 3)
CarriesSuffixOnce(x) == HasSuffix(x) /\ ~HasSuffix(strip(BaseOf(x)))

\* C2 as claimed: every symbol carries one suffix, the input's own if it has
\* one (in any case, with surrounding whitespace), .NS otherwise.
C2_Original ==
    (pc # "idle" /\ world.outcome # "none") =>
        LET typed == strip(upper(stock_input))
        IN  /\ CarriesSuffixOnce(symbol)
            /\ HasSuffix(typed) => SuffixOf(symbol) = SuffixOf(typed)
            /\ ~HasSuffix(typed) => SuffixOf(symbol) = DOT_NS

(***************************************************************************)
(* C3.  As claimed: a symbol that does not match the accepted pattern      *)
(* (1-20 characters of A-Z, 0-9, '.', '-', then the suffix) is never       *)
(* fetched.                                                                *)
(***************************************************************************)
SymbolChars == Range(UpperAlpha) \cup {"0","1","2","3","4","5","6","7","8","9",".","-"}
ValidSymbol(x) ==
    /\ HasSuffix(x)
    /\ Len(BaseOf(x)) \in 1..20
    /\ Range(BaseOf(x)) \subseteq SymbolChars

\* C3 as claimed: every symbol handed to fetch_financial_data matches the
\* accepted pattern.
C3_Original == \A i \in 1..Len(fetched) : ValidSymbol(fetched[i])

(***************************************************************************)
(* C4.  As claimed: the processed statement holds the 4 latest periods,    *)
(* oldest first, exactly 4 whenever output is produced.                    *)
(***************************************************************************)
C4_Original ==
    rev.called =>
        /\ IsAscending(df.periods)
        /\ Latest(df.periods, financials.periods)
        /\ Len(df.periods) = 4

\* C4, as the code has it: whatever the order of the columns, the processed
\* statement holds the min(4, n) latest of the n periods, oldest first, with
\* the rows untouched; output is produced for every statement with at least
\* one period and one row, so it shows exactly 4 periods only when n >= 4.
C4_LatestPeriods ==
    (world.outcome # "none" /\ pc \notin {"idle", "fetch", "process"}
        /\ stock /\ info # {}) =>
        IF financials.none \/ Len(financials.periods) = 0 \/ Len(financials.labels) = 0
        THEN df.none /\ ~rev.called /\ pc = "done"
        ELSE /\ ~df.none
             /\ IsAscending(df.periods)
             /\ Latest(df.periods, financials.periods)
             /\ Len(df.periods) = Min(4, Len(financials.periods))
             /\ df.labels = financials.labels
             /\ df.cell = financials.cell
             /\ pc = "done" => rev.called

\* five periods in neither ascending nor descending order, cut to four
C4_Witness ==
    /\ rev.called
    /\ Len(financials.periods) = 5
    /\ ~IsAscending(financials.periods) /\ ~IsDescending(financials.periods)
    /\ Len(df.periods) = 4

(***************************************************************************)
(* C5.  As claimed: a failed request shows exactly one message.            *)
(***************************************************************************)
Failed ==
    \/ world.outcome = "raise"
    \/ world.info = {}
    \/ world.fin.none \/ empty(world.fin)
    \/ rev.called /\ (~Present(possible_revenue_keys) \/ ~Present(possible_pat_keys))

\* C5 as claimed: a finished request that failed shows exactly one message.
C5_Original == (Finished /\ Failed) => Cardinality(Messages) = 1

(***************************************************************************)
(* C6.  As claimed: with no operating-profit alias in the statement every  *)
(* entry of the operating-profit and OPM% series is the "not available"    *)
(* marker and never the number zero.                                       *)
(***************************************************************************)
C6_Original ==
    (rev.called /\ ~rev.returned_early /\ ~Present(possible_operating_keys)) =>
        \A i \in 1..Len(df.periods) :
            /\ isna(rev.operating_data[i])
            /\ isna(rev.opm_data[i])

\* m is op / rv * 100 as floats divide
OpmIs(m, op, rv) ==
    IF isna(op) \/ isna(rv) THEN isna(m)
    ELSE IF rv = ZERO THEN (IF op = ZERO THEN isna(m) ELSE m = Inf(FSign(op)))
    ELSE IsNum(m) /\ FMul(m, rv) = FMul(op, Float(100))

\* C6, as the code has it: with no operating-profit alias the request still
\* succeeds; the two series are filled with the number zero, and none of it
\* is rendered: the chart holds no operating-profit, OPM% or comparison
\* trace, and the insights say "Operating profit data not available" in
\* place of the margin and growth lines.  With an alias, OPM% of each period
\* is OperatingProfit / Revenue x 100 of that period (infinite or NaN when
\* the revenue is zero or a value is missing).
C6_OperatingSeries ==
    (rev.called /\ ~rev.returned_early) =>
        IF ~Present(possible_operating_keys)
        THEN /\ \A i \in 1..Len(df.periods) :
                    rev.operating_data[i] = ZERO /\ rev.opm_data[i] = ZERO
             /\ TraceNames(RevenueChart) = {"Revenue"}
             /\ HasElement("write",
                    "Operating profit data not available for detailed analysis")
             /\ ~HasElement("write", "Current Operating Margin")
             /\ ~HasElement("write", "Operating Profit Growth")
             /\ pc = "done" =>
                    HasElement("info", "Disclaimer")
                    /\ \A i \in Messages : page[i].kind = "warning"
        ELSE /\ Len(rev.opm_data) = Len(df.periods)
             /\ \A i \in 1..Len(df.periods) :
                    OpmIs(rev.opm_data[i],
                          df.cell[rev.operating_income_key][df.periods[i]],
                          df.cell[rev.revenue_key][df.periods[i]])
             /\ "OPM %" \in TraceNames(RevenueChart)
             /\ TraceNamed(RevenueChart, "OPM %").y = rev.opm_data
             /\ TraceNamed(RevenueChart, "OPM %").x = years_of(df)

\* a finished request with revenue and no operating row
C6_Witness ==
    /\ Finished /\ rev.called /\ ~rev.returned_early
    /\ ~Present(possible_operating_keys)
    /\ HasElement("write", "Operating profit data not available for detailed analysis")
    /\ HasElement("info", "Disclaimer")

GrowthIs(rate, current, previous) ==
    IF previous = ZERO \/ isna(previous) \/ isna(current)
    THEN rate = ZERO
    ELSE /\ IsNum(rate)
         /\ FMul(rate, FAbs(previous)) = FMul(FSub(current, previous), Float(100))

ClaimedGrowth(current, previous) ==
    IF previous = ZERO THEN ZERO
    ELSE FMul(FDiv(FSub(current, previous), FAbs(previous)), Float(100))

\* C8 as claimed: every growth rate is 0 for a previous of 0 and the formula's
\* value otherwise, and is a finite number.
C8_Original ==
    /\ (prof.called /\ ~prof.returned_early) =>
        /\ \A j \in 1..Len(prof.eps_growth_rates) :
               /\ prof.eps_growth_rates[j]
                      = ClaimedGrowth(prof.eps_data[j + 1], prof.eps_data[j])
               /\ IsNum(prof.eps_growth_rates[j])
        /\ prof.pat_growth = ClaimedGrowth(Last(prof.pat_data), prof.pat_data[1])
    /\ (rev.called /\ ~rev.returned_early) =>
        rev.revenue_growth = ClaimedGrowth(Last(rev.revenue_data), rev.revenue_data[1])

\* C8, as the code has it: the growth rate is exactly 0 when previous is 0
\* and also when previous or current is missing (NaN); otherwise it is
\* (current - previous) / |previous| x 100.  It is never infinite or NaN.
\* The per-period EPS growth and the summary growth of Revenue, Operating
\* Profit and PAT (latest period against earliest) are computed this way.
C8_GrowthRate ==
    /\ (prof.called /\ ~prof.returned_early) =>
        /\ \A j \in 1..Len(prof.eps_growth_rates) :
               /\ GrowthIs(prof.eps_growth_rates[j],
                           prof.eps_data[j + 1], prof.eps_data[j])
               /\ IsNum(prof.eps_growth_rates[j])
        /\ GrowthIs(prof.pat_growth, Last(prof.pat_data), prof.pat_data[1])
        /\ IsNum(prof.pat_growth)
    /\ (rev.called /\ ~rev.returned_early) =>
        /\ GrowthIs(rev.revenue_growth, Last(rev.revenue_data), rev.revenue_data[1])
        /\ IsNum(rev.revenue_growth)
        /\ rev.operating_income_key # NoKey =>
               /\ GrowthIs(rev.operating_growth,
                           Last(rev.operating_data), rev.operating_data[1])
               /\ IsNum(rev.operating_growth)

\* a previous EPS of 0 before a negative one, and a missing EPS after a
\* previous one that is not 0
C8_Witness ==
    /\ prof.called /\ ~prof.returned_early
    /\ Len(prof.eps_data) = 3
    /\ prof.eps_data[1] = ZERO
    /\ FGt(ZERO, prof.eps_data[2])
    /\ isna(prof.eps_data[3])
    /\ prof.eps_growth_rates = <<ZERO, ZERO>>

(***************************************************************************)
(* C9.  The row used for a concept is the first alias of its list that is  *)
(* a row of the statement, whatever the order of the rows; the concept is  *)
(* unresolved only when no alias is a row.                                 *)
(***************************************************************************)
ResolvedAs(key, keys, labels) ==
    IF \E i \in 1..Len(keys) : keys[i] \in Range(labels)
    THEN \E i \in 1..Len(keys) :
            /\ key = keys[i]
            /\ keys[i] \in Range(labels)
            /\ \A j \in 1..(i - 1) : keys[j] \notin Range(labels)
    ELSE key = NoKey

\* C9: each resolved key is the first alias of its list among the rows, e.g.
\* "Total Revenue" whenever it is a row; it is unset only when no alias is.
C9_AliasPriority ==
    /\ rev.called =>
        /\ ResolvedAs(rev.revenue_key,
                      <<"Total Revenue", "Revenue", "Net Sales", "Total Revenues">>,
                      df.labels)
        /\ ResolvedAs(rev.operating_income_key,
                      <<"Operating Income", "Operating Revenue", "Gross Profit", "EBIT">>,
                      df.labels)
        /\ ("Total Revenue" \in Range(df.labels)) => rev.revenue_key = "Total Revenue"
    /\ prof.called =>
        /\ ResolvedAs(prof.pbt_key,
                      <<"Pretax Income", "Income Before Tax", "Earnings Before Tax", "PBT">>,
                      df.labels)
        /\ ResolvedAs(prof.pat_key,
                      <<"Net Income", "Net Earnings", "PAT", "Profit After Tax">>,
                      df.labels)

\* "Revenue" is a row before "Total Revenue" and "Total Revenue" is used
C9_Witness ==
    /\ rev.called
    /\ \E i, j \in 1..Len(df.labels) :
           i < j /\ df.labels[i] = "Revenue" /\ df.labels[j] = "Total Revenue"
    /\ rev.revenue_key = "Total Revenue"

(***************************************************************************)
(* C10.  As claimed: EPS of a period is PAT / (SharesOutstanding / 1e6)    *)
(* with that period's share count.                                         *)
(***************************************************************************)
C10_Original ==
    (prof.called /\ ~prof.returned_early) =>
        \A i \in 1..Len(df.periods) :
            prof.eps_data[i] =
                FDiv(df.cell[prof.pat_key][df.periods[i]],
                     FDiv(Float(world.shares[df.periods[i]]), Float(1000000)))

=============================================================================
